---- MODULE Spec2Model ----
(***************************************************************************)
(* Crash dashboard (src/dashboard.py): the normalisation pipeline          *)
(* (parse_date, extract_crash_count, categorize_crash_type,                *)
(* process_dataframe) and the page run of main() with its session state    *)
(* and the cached sheet fetch.                                             *)
(*                                                                         *)
(* A Python str is a sequence of one-character strings.  A cell value is   *)
(* a record: Null (NaN/None), StrV(s), IntV(n), FloatV(n) (the float n.0) or  *)
(* Ts(y, m, d) (a pandas Timestamp at midnight).                           *)
(***************************************************************************)
EXTENDS Integers, Sequences, FiniteSets, TLC

VARIABLES
    value,          \* the last call of a data function: [fn, arg]
    result,         \* what that call did: Returned(v, line) or Raised(exc, line)
    csv,            \* the delimited text being ingested: [cols, rows]
    frame,          \* what read_csv + process_dataframe made of it
    shown,          \* the table main() filters and aggregates (after lines 367-377)
    session_state,  \* st.session_state: a function from its keys to values
    cache,          \* st.cache_data entry of load_data_from_google_sheet
    clock,          \* seconds since the process started
    uploaded_file,  \* the file_uploader widget's value
    run             \* the last page run: what it did and how it ended

vars == <<value, result, csv, frame, shown, session_state, cache, clock,
          uploaded_file, run>>

-----------------------------------------------------------------------------
(* Values *)

Null == [kind |-> "null"]
StrV(s) == [kind |-> "str", s |-> s]
IntV(n) == [kind |-> "int", n |-> n]
FloatV(n) == [kind |-> "float", n |-> n]
Ts(y, m, d) == [kind |-> "ts", y |-> y, m |-> m, d |-> d]
NaT == [kind |-> "nat"]
\* a str whose characters nothing looks at, and datetime.now()
Text(s) == [kind |-> "text", s |-> s]
Time(t) == [kind |-> "time", t |-> t]

Returned(v, line) == [kind |-> "return", val |-> v, line |-> line]
Raised(exc, line) == [kind |-> "raise", exc |-> exc, line |-> line]

\* pd.isna / pd.notna on a scalar
isna(v) == v.kind \in {"null", "nat"}

-----------------------------------------------------------------------------
(* Python str operations on sequences of characters *)

UpperCase == <<"A","B","C","D","E","F","G","H","I","J","K","L","M",
               "N","O","P","Q","R","S","T","U","V","W","X","Y","Z">>
LowerCase == <<"a","b","c","d","e","f","g","h","i","j","k","l","m",
               "n","o","p","q","r","s","t","u","v","w","x","y","z">>
DigitChars == <<"0","1","2","3","4","5","6","7","8","9">>

Range(f) == {f[i] : i \in DOMAIN f}
Uppers == Range(UpperCase)
Lowers == Range(LowerCase)
Digits == Range(DigitChars)
Whitespace == {" ", "\t", "\n", "\r"}

ToUpperChar(c) ==
    IF c \in Lowers THEN UpperCase[CHOOSE i \in 1..26 : LowerCase[i] = c] ELSE c
ToLowerChar(c) ==
    IF c \in Uppers THEN LowerCase[CHOOSE i \in 1..26 : UpperCase[i] = c] ELSE c

\* str.upper(), str.lower()
Upper(s) == [i \in 1..Len(s) |-> ToUpperChar(s[i])]
Lower(s) == [i \in 1..Len(s) |-> ToLowerChar(s[i])]

\* str.strip()
Strip(s) ==
    LET keep == {i \in 1..Len(s) : s[i] \notin Whitespace}
    IN  IF keep = {} THEN <<>>
        ELSE LET lo == CHOOSE i \in keep : \A j \in keep : i <= j
                 hi == CHOOSE i \in keep : \A j \in keep : j <= i
             IN  SubSeq(s, lo, hi)

\* pat in text
Contains(text, pat) ==
    \E i \in 0..(Len(text) - Len(pat)) : SubSeq(text, i + 1, i + Len(pat)) = pat

\* str.replace(old, new) for a one-character old
RECURSIVE Replace(_, _, _)
Replace(s, old, new) ==
    IF s = <<>> THEN <<>>
    ELSE (IF Head(s) = old THEN new ELSE <<Head(s)>>) \o Replace(Tail(s), old, new)

\* str.title(): a letter that follows a non-letter is upper-cased, any other
\* letter lower-cased
Title(s) ==
    [i \in 1..Len(s) |->
        IF i = 1 \/ s[i - 1] \notin (Uppers \cup Lowers)
        THEN ToUpperChar(s[i]) ELSE ToLowerChar(s[i])]

\* every character of s[i..j] is in set
AllIn(s, i, j, set) == \A x \in i..j : s[x] \in set

DigitVal(c) == (CHOOSE i \in 1..10 : DigitChars[i] = c) - 1

\* the number a run of digits writes (0 for the empty run)
RECURSIVE DigitsVal(_)
DigitsVal(ds) ==
    IF ds = <<>> THEN 0
    ELSE 10 * DigitsVal(SubSeq(ds, 1, Len(ds) - 1)) + DigitVal(ds[Len(ds)])

\* the decimal digits of a natural number
RECURSIVE NatStr(_)
NatStr(n) ==
    IF n < 10 THEN <<DigitChars[n + 1]>>
    ELSE NatStr(n \div 10) \o <<DigitChars[(n % 10) + 1]>>

\* n written with at least w digits (strftime's zero padding)
Pad(n, w) == LET s == NatStr(n) IN
    IF Len(s) >= w THEN s ELSE [i \in 1..w |-> IF i <= w - Len(s) THEN "0" ELSE s[i - (w - Len(s))]]

IntStr(n) == IF n < 0 THEN <<"-">> \o NatStr(-n) ELSE NatStr(n)

\* str(v) of a cell value
str(v) ==
    CASE v.kind = "str" -> v.s
      [] v.kind = "int" -> IntStr(v.n)
      [] v.kind = "float" -> IntStr(v.n) \o <<".", "0">>
      [] v.kind = "ts" ->
            Pad(v.y, 4) \o <<"-">> \o Pad(v.m, 2) \o <<"-">> \o Pad(v.d, 2)
                \o <<" ", "0", "0", ":", "0", "0", ":", "0", "0">>
      [] v.kind = "nat" -> <<"N", "a", "T">>
      [] OTHER -> <<"n", "a", "n">>

-----------------------------------------------------------------------------
(* extract_crash_count, lines 196-217 *)

EmptyTokens == { <<>>, <<"N","A">>, <<"N","/","A">>, <<"-">>,
                 <<"N","O","N","E">>, <<"N","U","L","L">> }

DigitDot == Digits \cup {"."}
DigitComma == Digits \cup {","}

\* re.search(r'([\d.]+)\s*U', s): the places i..j of group 1 of a match that ends
\* in the letter U at k
UnitMatches(s, unit) ==
    {<<i, j>> \in (1..Len(s)) \X (1..Len(s)) :
        /\ i <= j
        /\ AllIn(s, i, j, DigitDot)
        /\ \E k \in (j + 1)..Len(s) :
              AllIn(s, j + 1, k - 1, Whitespace) /\ s[k] = unit}

\* group(1) of the leftmost match, its group taken greedily
UnitGroup(s, unit) ==
    LET ms == UnitMatches(s, unit)
        i  == CHOOSE a \in {m[1] : m \in ms} : \A m \in ms : a <= m[1]
        j  == CHOOSE b \in {m[2] : m \in ms} :
                  /\ <<i, b>> \in ms
                  /\ \A m \in ms : m[1] = i => m[2] <= b
    IN  SubSeq(s, i, j)

\* float(g) accepts a run of digits and dots with one dot at most and a digit
FloatOK(g) ==
    /\ Cardinality({i \in 1..Len(g) : g[i] = "."}) <= 1
    /\ \E i \in 1..Len(g) : g[i] \in Digits
    /\ AllIn(g, 1, Len(g), DigitDot)

\* int(float(g) * 10^e), in exact decimal arithmetic
ScaledInt(g, e) ==
    LET dots == {i \in 1..Len(g) : g[i] = "."}
        p    == IF dots = {} THEN Len(g) + 1 ELSE CHOOSE i \in dots : TRUE
        ip   == SubSeq(g, 1, p - 1)
        fp   == SubSeq(g, p + 1, Len(g))
        fe   == [i \in 1..e |-> IF i <= Len(fp) THEN fp[i] ELSE "0"]
    IN  DigitsVal(ip \o fe)

\* re.findall(r'[\d,]+\.?\d*', s)[0]: the leftmost match, each part greedy
FirstNumber(s) ==
    LET starts == {i \in 1..Len(s) : s[i] \in DigitComma}
        i == CHOOSE a \in starts : \A b \in starts : a <= b
        j == CHOOSE b \in i..Len(s) :
                 /\ AllIn(s, i, b, DigitComma)
                 /\ (b = Len(s) \/ s[b + 1] \notin DigitComma)
        d == IF j < Len(s) /\ s[j + 1] = "." THEN j + 1 ELSE j
        k == CHOOSE b \in d..Len(s) :
                 /\ AllIn(s, d + 1, b, Digits)
                 /\ (b = Len(s) \/ s[b + 1] \notin Digits)
    IN  SubSeq(s, i, k)

HasNumber(s) == \E i \in 1..Len(s) : s[i] \in DigitComma

\* lines 211-217
PlainCount(value_str) ==
    IF HasNumber(value_str)
    THEN LET n == Replace(FirstNumber(value_str), ",", <<>>) IN
         IF FloatOK(n) THEN Returned(ScaledInt(n, 0), 214) ELSE Returned(0, 216)
    ELSE Returned(0, 217)

\* lines 207-210, then the rest
MillionsCount(value_str) ==
    IF Contains(value_str, <<"M">>) /\ UnitMatches(value_str, "M") # {}
    THEN LET g == UnitGroup(value_str, "M") IN
         IF FloatOK(g) THEN Returned(ScaledInt(g, 6), 210)
         ELSE Raised("ValueError", 210)
    ELSE PlainCount(value_str)

\* lines 203-206, then the rest
ThousandsCount(value_str) ==
    IF Contains(value_str, <<"K">>) /\ UnitMatches(value_str, "K") # {}
    THEN LET g == UnitGroup(value_str, "K") IN
         IF FloatOK(g) THEN Returned(ScaledInt(g, 3), 206)
         ELSE Raised("ValueError", 206)
    ELSE MillionsCount(value_str)

extract_crash_count(v) ==
    IF isna(v) THEN Returned(0, 198)
    ELSE LET value_str == Upper(Strip(str(v))) IN
         IF value_str \in EmptyTokens THEN Returned(0, 202)
         ELSE ThousandsCount(value_str)

-----------------------------------------------------------------------------
(* parse_date, lines 180-193 *)

\* the formats with month/day/year tried before day/month/year
FormatsMonthFirst == << [fields |-> <<"d", "m", "Y">>, sep |-> "-"],
                        [fields |-> <<"Y", "m", "d">>, sep |-> "-"],
                        [fields |-> <<"m", "d", "Y">>, sep |-> "/"],
                        [fields |-> <<"d", "m", "Y">>, sep |-> "/"],
                        [fields |-> <<"d", "b", "Y">>, sep |-> "-"],
                        [fields |-> <<"Y", "m", "d">>, sep |-> "/"] >>

\* the formats of line 184, in order: the fields and the separator of each
Formats == << [fields |-> <<"d", "m", "Y">>, sep |-> "-"],
              [fields |-> <<"Y", "m", "d">>, sep |-> "-"],
              [fields |-> <<"d", "m", "Y">>, sep |-> "/"],
              [fields |-> <<"m", "d", "Y">>, sep |-> "/"],
              [fields |-> <<"d", "b", "Y">>, sep |-> "-"],
              [fields |-> <<"Y", "m", "d">>, sep |-> "/"] >>

MonthAbbr == << <<"J","a","n">>, <<"F","e","b">>, <<"M","a","r">>, <<"A","p","r">>, <<"M","a","y">>, <<"J","u","n">>,
                <<"J","u","l">>, <<"A","u","g">>, <<"S","e","p">>, <<"O","c","t">>, <<"N","o","v">>, <<"D","e","c">> >>

\* the strings array_strptime reads as NaT instead of parsing
NatStrings == { <<>>, <<"N","a","T">>, <<"n","a","t">>, <<"N","A","T">>, <<"n","a","n">>, <<"N","a","N">>, <<"N","A","N">> }

IsLeap(y) == (y % 4 = 0 /\ y % 100 # 0) \/ y % 400 = 0
DaysInMonth(y, m) ==
    IF m = 2 THEN (IF IsLeap(y) THEN 29 ELSE 28)
    ELSE IF m \in {4, 6, 9, 11} THEN 30 ELSE 31

\* the value a field's text has under a strptime directive, or -1 when the
\* directive's pattern does not match the whole text
FieldValue(dir, t) ==
    LET n == DigitsVal(t)
        digits == Len(t) > 0 /\ AllIn(t, 1, Len(t), Digits)
    IN  CASE dir = "d" ->
                IF digits /\ Len(t) <= 2 /\ n \in 1..31 THEN n
                ELSE IF Len(t) = 2 /\ t[1] = " " /\ t[2] \in Digits \ {"0"}
                     THEN DigitVal(t[2]) ELSE -1
          [] dir = "m" -> IF digits /\ Len(t) <= 2 /\ n \in 1..12 THEN n ELSE -1
          [] dir = "Y" -> IF digits /\ Len(t) = 4 THEN n ELSE -1
          [] dir = "b" ->
                IF \E i \in 1..12 : Lower(MonthAbbr[i]) = Lower(t)
                THEN CHOOSE i \in 1..12 : Lower(MonthAbbr[i]) = Lower(t) ELSE -1

\* the three fields of s between two separators, or <<>> when s does not hold
\* exactly two of them
Fields(s, sep) ==
    LET at == {i \in 1..Len(s) : s[i] = sep} IN
    IF Cardinality(at) # 2 THEN <<>>
    ELSE LET p == CHOOSE i \in at : \A j \in at : i <= j
             q == CHOOSE i \in at : \A j \in at : j <= i
         IN  <<SubSeq(s, 1, p - 1), SubSeq(s, p + 1, q - 1), SubSeq(s, q + 1, Len(s))>>

\* the date three fields name in the order `fields`, or Null when a field does
\* not match or the day is not one of the month
FieldsDate(fields, fs) ==
    IF fs = <<>> THEN Null
    ELSE LET val(dir) == FieldValue(dir, fs[CHOOSE i \in 1..3 : fields[i] = dir])
             y == val("Y")
             m == IF "b" \in Range(fields) THEN val("b") ELSE val("m")
             d == val("d")
         IN  IF y < 0 \/ m < 0 \/ d < 0 THEN Null
             ELSE IF d > DaysInMonth(y, m) THEN Null
             ELSE Ts(y, m, d)

\* pd.to_datetime(s, format=fmt): a Timestamp, NaT, or Null for an exception
Strptime(s, fmt) ==
    IF s \in NatStrings THEN NaT ELSE FieldsDate(fmt.fields, Fields(s, fmt.sep))

\* pd.to_datetime(s, dayfirst=True), line 191, on the shapes of input drawn
\* here: a dotted numeric date is read day first; anything else none of the
\* explicit formats took is refused
PermissiveParse(s) == FieldsDate(<<"d", "m", "Y">>, Fields(s, "."))

\* lines 185-193: the first format that parses wins
RECURSIVE TryFormats(_, _)
TryFormats(date_str, i) ==
    IF i > Len(Formats)
    THEN LET t == PermissiveParse(date_str) IN
         IF t = Null THEN Returned(Null, 193) ELSE Returned(t, 191)
    ELSE LET t == Strptime(date_str, Formats[i]) IN
         IF t = Null THEN TryFormats(date_str, i + 1) ELSE Returned(t, 187)

parse_date(date_str) ==
    IF isna(date_str) THEN Returned(Null, 182)
    ELSE TryFormats(Strip(str(date_str)), 1)

\* Timestamp.strftime with one of the formats
Strftime(t, fmt) ==
    LET text(dir) == CASE dir = "d" -> Pad(t.d, 2)
                       [] dir = "m" -> Pad(t.m, 2)
                       [] dir = "Y" -> Pad(t.y, 4)
                       [] dir = "b" -> MonthAbbr[t.m]
    IN  text(fmt.fields[1]) \o <<fmt.sep>> \o text(fmt.fields[2]) \o <<fmt.sep>>
            \o text(fmt.fields[3])

-----------------------------------------------------------------------------
(* categorize_crash_type, lines 220-230 *)

\* line 221: ' '.join(str(v).lower() for v in row.values if pd.notna(v))
RECURSIVE JoinLower(_)
JoinLower(vs) ==
    IF vs = <<>> THEN <<>>
    ELSE IF Len(vs) = 1 THEN Lower(str(vs[1]))
    ELSE Lower(str(Head(vs))) \o <<" ">> \o JoinLower(Tail(vs))

RowText(cells) == JoinLower(SelectSeq(cells, LAMBDA v : ~isna(v)))

AdNetworks == { <<"n","e","t","w","o","r","k">>, <<"a","p","p","l","o","v","i","n">>, <<"u","n","i","t","y">>, <<"m","o","l","o","c","o">>, <<"i","r","o","n","s","o","u","r","c","e">> }

\* the rules with the ad-network rule tried before the two fatal rules
CategorizeNetworkFirst(text) ==
    IF Contains(text, <<"a","n","r">>) \/ Contains(text, <<"n","o","t"," ","r","e","s","p","o","n","d","i","n","g">>)
    THEN Returned("ANR", 223)
    ELSE IF \E net \in AdNetworks : Contains(text, net)
    THEN Returned("Network", 229)
    ELSE IF Contains(text, <<"f","a","t","a","l">>) /\ ~Contains(text, <<"n","o","n">>)
    THEN Returned("Fatal", 225)
    ELSE IF Contains(text, <<"n","o","n","-","f","a","t","a","l">>) \/ Contains(text, <<"n","o","n","f","a","t","a","l">>)
    THEN Returned("Non-fatal", 227)
    ELSE Returned("Non-fatal", 230)

\* lines 222-230
Categorize(text) ==
    IF Contains(text, <<"a","n","r">>) \/ Contains(text, <<"n","o","t"," ","r","e","s","p","o","n","d","i","n","g">>)
    THEN Returned("ANR", 223)
    ELSE IF Contains(text, <<"f","a","t","a","l">>) /\ ~Contains(text, <<"n","o","n">>)
    THEN Returned("Fatal", 225)
    ELSE IF Contains(text, <<"n","o","n","-","f","a","t","a","l">>) \/ Contains(text, <<"n","o","n","f","a","t","a","l">>)
    THEN Returned("Non-fatal", 227)
    ELSE IF \E net \in AdNetworks : Contains(text, net)
    THEN Returned("Network", 229)
    ELSE Returned("Non-fatal", 230)

categorize_crash_type(row) == Categorize(RowText(row))

-----------------------------------------------------------------------------
(* One call of one of the three data functions, on a bounded input *)

MaxTokenLen == 4
MaxNum == 12
MaxRowCells == 3

Idle == [kind |-> "idle"]

CountAlphabet == {"1", "2", ".", ",", "K", "M", "-", " "}

RECURSIVE Words(_, _)
Words(alphabet, n) ==
    IF n = 0 THEN {<<>>}
    ELSE LET W == Words(alphabet, n - 1) IN
         W \cup {Append(w, c) : w \in W, c \in alphabet}

CountExtras == { <<"n","/","a">>, <<"n","o","n","e">>, <<"N","u","l","l">>, <<"N","A">>, <<"1",".","5","k">>, <<"3","m">>, <<"a","b","c">>,
                 <<"2",",","3","4","5">>, <<"1",".","2",".","3","K">>, <<"-","1",".","5","K">>, <<"1","2"," ","c","r","a","s","h","e","s">>, <<"1",".","2",".","3","M">>,
                 <<" ","7"," ">>, <<"5","M","K">>, <<"2",".","5","K","M">> }

\* a count in millions of four digits or more is beyond 32-bit integers, which the
\* model's arithmetic is evaluated in
Representable(w) ==
    ~(Contains(Upper(w), <<"M">>) /\ Cardinality({i \in 1..Len(w) : w[i] \in Digits}) > 3)

CountInputs ==
    {Null} \cup {IntV(n) : n \in (-MaxNum)..MaxNum}
           \cup {FloatV(n) : n \in (-MaxNum)..MaxNum}
           \cup {StrV(w) : w \in {x \in Words(CountAlphabet, MaxTokenLen) : Representable(x)}
                                 \cup CountExtras}

SampleDates ==
    {Ts(y, m, d) : y \in {2023, 2024}, m \in {1, 2, 4, 12}, d \in {1, 4, 12, 13, 29, 31}}
        \ {t \in [kind : {"ts"}, y : {2023, 2024}, m : {1, 2, 4, 12},
                  d : {1, 4, 12, 13, 29, 31}] : t.d > DaysInMonth(t.y, t.m)}

\* strings no format wrote: not dates, dotted dates, unpadded dates, impossible
\* dates, the strings read as NaT
OtherDateStrings == { <<"g","a","r","b","a","g","e">>, <<"a","b","c">>,
                      <<"0","5",".","0","1",".","2","0","2","4">>,
                      <<"3","1",".","1","2",".","2","0","2","3">>,
                      <<"5","-","1","-","2","0","2","4">>, <<"7","/","3","/","2","0","2","4">>,
                      <<" ","0","1","-","0","2","-","2","0","2","4"," ">>,
                      <<"3","1","-","0","2","-","2","0","2","4">>,
                      <<"1","3","/","1","3","/","2","0","2","4">>,
                      <<"0","1","-","j","a","n","-","2","0","2","4">>, <<>>, <<" "," "," ">>,
                      <<"N","a","T">>, <<"3","1",".","0","2",".","2","0","2","4">>,
                      <<"H","e","l","l","o"," ","w","o","r","l","d">> }

DateInputs ==
    {[arg |-> Null, written |-> 0]}
        \cup {[arg |-> StrV(s), written |-> 0] : s \in OtherDateStrings}
        \cup {[arg |-> StrV(Strftime(t, Formats[i])), written |-> i] :
                 t \in SampleDates, i \in 1..Len(Formats)}

ClassifyCells ==
    { Null, IntV(7), StrV(<<"A","p","p"," ","N","o","t"," ","R","e","s","p","o","n","d","i","n","g">>), StrV(<<"F","a","t","a","l"," ","c","r","a","s","h"," ","o","n"," ","l","a","u","n","c","h">>),
      StrV(<<"n","o","n","-","f","a","t","a","l"," ","e","x","c","e","p","t","i","o","n">>), StrV(<<"A","p","p","L","o","v","i","n"," ","S","D","K"," ","t","i","m","e","o","u","t">>),
      StrV(<<"N","o","n","f","a","t","a","l">>), StrV(<<"f","a","t","a","l">>), StrV(<<"n","o","n">>), StrV(<<"n","o","t">>),
      StrV(<<"r","e","s","p","o","n","d","i","n","g">>), StrV(<<"U","n","i","t","y">>) }

RECURSIVE Rows(_, _)
Rows(cells, n) ==
    IF n = 0 THEN {<<>>}
    ELSE LET R == Rows(cells, n - 1) IN R \cup {Append(r, c) : r \in R, c \in cells}

\* the pipeline and the session, not started
NoCsv == [cols |-> <<>>, rows |-> <<>>, built |-> FALSE]
NoSession == [k \in {} |-> Null]
NoCache == [present |-> FALSE]
NoRun == [kind |-> "idle"]

PipelineIdle == csv = NoCsv /\ frame = Idle /\ shown = Idle
SessionIdle ==
    /\ session_state = NoSession /\ cache = NoCache /\ clock = 0
    /\ uploaded_file = Null /\ run = NoRun

InitCalls == value = Idle /\ result = Idle /\ PipelineIdle /\ SessionIdle

ExtractCrashCount ==
    /\ value = Idle
    /\ \E v \in CountInputs :
           /\ value' = [kind |-> "call", fn |-> "extract_crash_count", arg |-> v]
           /\ result' = extract_crash_count(v)
           /\ UNCHANGED <<csv, frame, shown, session_state, cache, clock, uploaded_file, run>>

ParseDate ==
    /\ value = Idle
    /\ \E in \in DateInputs :
           /\ value' = [kind |-> "call", fn |-> "parse_date", arg |-> in.arg,
                        written |-> in.written]
           /\ result' = parse_date(in.arg)
           /\ UNCHANGED <<csv, frame, shown, session_state, cache, clock, uploaded_file, run>>

CategorizeCrashType ==
    /\ value = Idle
    /\ \E row \in Rows(ClassifyCells, MaxRowCells) :
           /\ value' = [kind |-> "call", fn |-> "categorize_crash_type", arg |-> row]
           /\ result' = categorize_crash_type(row)
           /\ UNCHANGED <<csv, frame, shown, session_state, cache, clock, uploaded_file, run>>

NextCalls == ExtractCrashCount \/ ParseDate \/ CategorizeCrashType

SpecCalls == InitCalls /\ [][NextCalls]_vars

-----------------------------------------------------------------------------
(* Properties of the data functions, checked under SpecCalls *)

Called(fn) == value.kind = "call" /\ value.fn = fn

\* C2 (as claimed): for every input value extract_crash_count returns a
\* non-negative integer and never raises, and returns 0 when the input holds no
\* digit at all.
C2_NeverRaisesNonNegative ==
    Called("extract_crash_count") =>
        /\ result.kind = "return"
        /\ result.val \in Nat
        /\ (~isna(value.arg) /\ ~(\E i \in 1..Len(str(value.arg)) :
                                      str(value.arg)[i] \in Digits))
               => result.val = 0

\* C9 (as claimed): a non-empty token holding both K and M is treated as a K
\* token: a value it yields is the number before K times 1,000, returned by the K
\* branch (line 206), and with no number before K it is still never a value of
\* the M branch (line 210).
C9_BothLettersTreatedAsK ==
    (Called("extract_crash_count") /\ value.arg.kind = "str") =>
        LET token == Upper(Strip(value.arg.s)) IN
        (/\ token \notin EmptyTokens
         /\ Contains(token, <<"K">>) /\ Contains(token, <<"M">>)
         /\ result.kind = "return")
            => IF UnitMatches(token, "K") # {}
               THEN /\ result.line = 206
                    /\ result.val = ScaledInt(UnitGroup(token, "K"), 3)
               ELSE result.line # 210

\* C3: categorize_crash_type labels every row by the ordered rules over the
\* row's joined lower-cased text, the first rule that matches deciding, so the
\* label is always one of the four; the five rows the specification lists get
\* the labels it lists.
C3_OrderedRules ==
    Called("categorize_crash_type") =>
        LET text == RowText(value.arg)
            has(p) == Contains(text, p)
            r1 == has(<<"a","n","r">>) \/ has(<<"n","o","t"," ","r","e","s","p","o","n","d","i","n","g">>)
            r2 == has(<<"f","a","t","a","l">>) /\ ~has(<<"n","o","n">>)
            r3 == has(<<"n","o","n","-","f","a","t","a","l">>) \/ has(<<"n","o","n","f","a","t","a","l">>)
            r4 == \/ has(<<"n","e","t","w","o","r","k">>) \/ has(<<"a","p","p","l","o","v","i","n">>) \/ has(<<"u","n","i","t","y">>)
                  \/ has(<<"m","o","l","o","c","o">>) \/ has(<<"i","r","o","n","s","o","u","r","c","e">>)
            label == result.val
        IN  /\ result.kind = "return"
            /\ label \in {"ANR", "Fatal", "Non-fatal", "Network"}
            /\ r1 => label = "ANR"
            /\ (~r1 /\ r2) => label = "Fatal"
            /\ (~r1 /\ ~r2 /\ r3) => label = "Non-fatal"
            /\ (~r1 /\ ~r2 /\ ~r3 /\ r4) => label = "Network"
            /\ (~r1 /\ ~r2 /\ ~r3 /\ ~r4) => label = "Non-fatal"
            /\ value.arg = <<StrV(<<"A","p","p"," ","N","o","t"," ","R","e","s","p","o","n","d","i","n","g">>)>> => label = "ANR"
            /\ value.arg = <<StrV(<<"F","a","t","a","l"," ","c","r","a","s","h"," ","o","n"," ","l","a","u","n","c","h">>)>> => label = "Fatal"
            /\ value.arg = <<StrV(<<"n","o","n","-","f","a","t","a","l"," ","e","x","c","e","p","t","i","o","n">>)>> => label = "Non-fatal"
            /\ value.arg = <<StrV(<<"A","p","p","L","o","v","i","n"," ","S","D","K"," ","t","i","m","e","o","u","t">>)>> => label = "Network"
            /\ value.arg = <<>> => label = "Non-fatal"

\* a row with the word fatal and an ad network's name and no "non" has been
\* labelled: the earlier rule decided
C3_Witness ==
    /\ Called("categorize_crash_type")
    /\ Contains(RowText(value.arg), <<"f","a","t","a","l">>)
    /\ Contains(RowText(value.arg), <<"u","n","i","t","y">>)
    /\ ~Contains(RowText(value.arg), <<"n","o","n">>)
    /\ ~Contains(RowText(value.arg), <<"n","o","t"," ","r","e","s","p","o","n","d","i","n","g">>)
    /\ result = Returned("Fatal", 225)

\* the string parse_date was given round-trips through format i
RoundTrips(i) ==
    /\ result.kind = "return"
    /\ result.val.kind = "ts"
    /\ Strftime(result.val, Formats[i]) = value.arg.s

\* C10 (as claimed): a string written in any of the six formats parses to a date
\* that the same format writes back as the same string.
C10_RoundTripAllFormats ==
    (Called("parse_date") /\ value.written > 0) => RoundTrips(value.written)

\* the string is month/day/year with a day that is a month number too, and not
\* the month's own number
AmbiguousMonthFirst ==
    /\ Called("parse_date")
    /\ value.written = 4
    /\ LET f == Fields(value.arg.s, "/") IN
       DigitsVal(f[2]) <= 12 /\ DigitsVal(f[2]) # DigitsVal(f[1])

\* C10 (amended): the round trip holds for the formats d-m-Y, Y-m-d, d/m/Y,
\* d-Mon-Y and Y/m/d, and for m/d/Y strings whose day is above 12 or equals the
\* month; any other m/d/Y string is read day first by the earlier d/m/Y format,
\* so it is d/m/Y, not m/d/Y, that writes the parsed date back as the string.
C10_RoundTripUnlessDayFirstWins ==
    (Called("parse_date") /\ value.written > 0) =>
        IF AmbiguousMonthFirst
        THEN RoundTrips(3) /\ ~RoundTrips(4)
        ELSE RoundTrips(value.written)

\* an m/d/Y string with day and month both at most 12 has been parsed
C10_Witness == AmbiguousMonthFirst /\ result.kind = "return" /\ result.line = 187

\* the classifier was given a row whose text holds both fatal and non
FatalAndNon ==
    /\ Called("categorize_crash_type")
    /\ Contains(RowText(value.arg), <<"f","a","t","a","l">>)
    /\ Contains(RowText(value.arg), <<"n","o","n">>)

\* C11 (as claimed): every row whose joined lower-cased text holds both fatal
\* and non is labelled Non-fatal, whatever other keywords it holds.
C11_FatalAndNonIsNonFatal ==
    FatalAndNon => result = Returned("Non-fatal", result.line)

\* C11 (amended): a row whose text holds both fatal and non is never labelled
\* Fatal; it is labelled ANR when the text holds anr or not responding,
\* otherwise Non-fatal when it holds non-fatal or nonfatal, whatever ad-network
\* word it also holds, and otherwise Network when it holds an ad-network word
\* and Non-fatal when it holds none.
C11_FatalAndNonByPrecedence ==
    FatalAndNon =>
        LET text == RowText(value.arg)
            anr == Contains(text, <<"a","n","r">>) \/ Contains(text, <<"n","o","t"," ","r","e","s","p","o","n","d","i","n","g">>)
            nonfatal == Contains(text, <<"n","o","n","-","f","a","t","a","l">>) \/ Contains(text, <<"n","o","n","f","a","t","a","l">>)
            network == \E net \in {<<"n","e","t","w","o","r","k">>, <<"a","p","p","l","o","v","i","n">>, <<"u","n","i","t","y">>, <<"m","o","l","o","c","o">>,
                                   <<"i","r","o","n","s","o","u","r","c","e">>} : Contains(text, net)
        IN  /\ result.kind = "return"
            /\ result.val = IF anr THEN "ANR"
                            ELSE IF nonfatal THEN "Non-fatal"
                            ELSE IF network THEN "Network"
                            ELSE "Non-fatal"

\* a row that holds non-fatal and an ad network's name, and neither anr nor not
\* responding, has been labelled Non-fatal by the non-fatal rule
C11_Witness ==
    /\ FatalAndNon
    /\ Contains(RowText(value.arg), <<"n","o","n","-","f","a","t","a","l">>)
    /\ Contains(RowText(value.arg), <<"u","n","i","t","y">>)
    /\ ~Contains(RowText(value.arg), <<"a","n","r">>)
    /\ ~Contains(RowText(value.arg), <<"n","o","t"," ","r","e","s","p","o","n","d","i","n","g">>)
    /\ result = Returned("Non-fatal", 227)

-----------------------------------------------------------------------------
(* DataFrames: [columns, dtypes, index, data], data a sequence of rows, each a *)
(* sequence of cell values in column order; index the labels of the rows       *)

ColDate == <<"D","a","t","e">>
ColGame == <<"G","a","m","e">>
ColPlatform == <<"P","l","a","t","f","o","r","m">>
ColNetwork == <<"N","e","t","w","o","r","k">>
Unknown == <<"U","n","k","n","o","w","n">>

HasCol(df, name) == \E j \in 1..Len(df.columns) : df.columns[j] = name
ColIndex(df, name) ==
    CHOOSE j \in 1..Len(df.columns) :
        df.columns[j] = name /\ \A k \in 1..(j - 1) : df.columns[k] # name
Column(df, name) == [r \in 1..Len(df.data) |-> df.data[r][ColIndex(df, name)]]

\* df[name] = vals, for a column df has
SetCol(df, name, dtype, vals) ==
    LET j == ColIndex(df, name) IN
    [df EXCEPT !.dtypes[j] = dtype,
               !.data = [r \in 1..Len(df.data) |-> [df.data[r] EXCEPT ![j] = vals[r]]]]

\* df[name] = vals, for a new column
AddCol(df, name, dtype, vals) ==
    [df EXCEPT !.columns = Append(@, name),
               !.dtypes = Append(@, dtype),
               !.data = [r \in 1..Len(df.data) |-> Append(df.data[r], vals[r])]]

Assign(df, name, dtype, vals) ==
    IF HasCol(df, name) THEN SetCol(df, name, dtype, vals)
    ELSE AddCol(df, name, dtype, vals)

\* df[mask]
RECURSIVE KeptRows(_, _)
KeptRows(mask, r) ==
    IF r > Len(mask) THEN <<>>
    ELSE (IF mask[r] THEN <<r>> ELSE <<>>) \o KeptRows(mask, r + 1)

Filter(df, mask) ==
    LET keep == KeptRows(mask, 1) IN
    [df EXCEPT !.index = [i \in 1..Len(keep) |-> df.index[keep[i]]],
               !.data = [i \in 1..Len(keep) |-> df.data[keep[i]]]]

-----------------------------------------------------------------------------
(* pd.read_csv, lines 300 and 357: the typing of the columns *)

\* the cell texts read_csv reads as missing
NaValues == { <<>>, <<"N","A">>, <<"N","/","A">>, <<"n","/","a">>, <<"N","a","N">>, <<"n","a","n">>, <<"N","U","L","L">>, <<"n","u","l","l">>,
              <<"N","o","n","e">>, <<"#","N","/","A">>, <<"<","N","A",">">> }

IsIntLiteral(t) ==
    \/ Len(t) > 0 /\ AllIn(t, 1, Len(t), Digits)
    \/ Len(t) > 1 /\ t[1] = "-" /\ AllIn(t, 2, Len(t), Digits)

IntLiteral(t) == IF t[1] = "-" THEN -DigitsVal(Tail(t)) ELSE DigitsVal(t)

\* a column of whole numbers is int64, float64 when a cell is missing; a column
\* with no value at all is float64 (object when the table has no rows); any
\* other column is object and keeps its texts
ColumnDtype(texts) ==
    LET present == {i \in 1..Len(texts) : texts[i] \notin NaValues} IN
    IF Len(texts) = 0 THEN "object"
    ELSE IF \E i \in present : ~IsIntLiteral(texts[i]) THEN "object"
    ELSE IF Cardinality(present) = Len(texts) THEN "int64" ELSE "float64"

CellValue(t, dtype) ==
    IF t \in NaValues THEN Null
    ELSE CASE dtype = "int64" -> IntV(IntLiteral(t))
           [] dtype = "float64" -> FloatV(IntLiteral(t))
           [] OTHER -> StrV(t)

read_csv(file) ==
    LET n == Len(file.cols)
        dtypes == [j \in 1..n |-> ColumnDtype([r \in 1..Len(file.rows) |-> file.rows[r][j]])]
    IN  [columns |-> file.cols,
         dtypes |-> dtypes,
         index |-> [r \in 1..Len(file.rows) |-> r - 1],
         data |-> [r \in 1..Len(file.rows) |->
                      [j \in 1..n |-> CellValue(file.rows[r][j], dtypes[j])]]]

-----------------------------------------------------------------------------
(* process_dataframe, lines 233-270: each step takes the table so far, or the *)
(* exception of an earlier step, which it passes on                           *)

Period(y, m) == [kind |-> "period", y |-> y, m |-> m]

\* line 234
CleanHeader(c) == Replace(Replace(Strip(c), "\n", <<" ">>), "\r", <<" ">>)

\* line 237: in a Series with a Timestamp or a NaT, a None is NaT
DateCells(parsed) ==
    [r \in DOMAIN parsed |->
        IF isna(parsed[r]) /\ \E q \in DOMAIN parsed : parsed[q].kind \in {"ts", "nat"}
        THEN NaT ELSE parsed[r]]

\* line 237: the parsed column is datetime64 when a value is a Timestamp or NaT,
\* and stays object when every value is None
DateDtype(cells) ==
    IF \E r \in DOMAIN cells : cells[r].kind \in {"ts", "nat"} THEN "datetime64"
    ELSE "object"

\* lines 237-238: the column is replaced and the rows without a date dropped
Dated(df, cells) ==
    Returned(Filter(SetCol(df, ColDate, DateDtype(cells), cells),
                    [r \in DOMAIN cells |-> ~isna(cells[r])]), 270)

\* lines 236-238
DateStep(df) ==
    IF ~HasCol(df, ColDate) THEN Returned(df, 270)
    ELSE Dated(df, DateCells([r \in 1..Len(df.data) |->
                                 parse_date(Column(df, ColDate)[r]).val]))

\* Series.str.strip().str.title() on an object column: a cell that is no str
\* becomes NaN
StripTitle(v) == IF v.kind = "str" THEN StrV(Title(Strip(v.s))) ELSE Null

\* lines 240-241: .str is refused on a column that is not object
GameStep(prev) ==
    IF prev.kind = "raise" THEN prev
    ELSE LET df == prev.val IN
         IF ~HasCol(df, ColGame) THEN prev
         ELSE IF df.dtypes[ColIndex(df, ColGame)] # "object"
         THEN Raised("AttributeError", 241)
         ELSE LET x == Column(df, ColGame) IN
              Returned(SetCol(df, ColGame, "object",
                              [r \in 1..Len(df.data) |-> StripTitle(x[r])]), 270)

\* line 244
CanonicalIos(v) == IF v \in {StrV(<<"I","o","s">>), StrV(<<"I","O","S">>)} THEN StrV(<<"i","O","S">>) ELSE v

\* lines 242-244
PlatformStep(prev) ==
    IF prev.kind = "raise" THEN prev
    ELSE LET df == prev.val IN
         IF ~HasCol(df, ColPlatform) THEN prev
         ELSE IF df.dtypes[ColIndex(df, ColPlatform)] # "object"
         THEN Raised("AttributeError", 243)
         ELSE LET x == Column(df, ColPlatform) IN
              Returned(SetCol(df, ColPlatform, "object",
                              [r \in 1..Len(df.data) |-> CanonicalIos(StripTitle(x[r]))]), 270)

\* lines 246-250
CrashCountColumns(df) ==
    {j \in 1..Len(df.columns) : Contains(Lower(df.columns[j]), <<"c","r","a","s","h"," ","c","o","u","n","t">>)}

\* lines 252-255: an exception of extract_crash_count is the apply's
CrashCountStep(prev) ==
    IF prev.kind = "raise" THEN prev
    ELSE LET df == prev.val
             cols == CrashCountColumns(df)
             n == Len(df.data)
         IN  IF cols = {}
             THEN Returned(Assign(df, <<"C","r","a","s","h","_","C","o","u","n","t","_","N","u","m","e","r","i","c">>, "int64",
                                  [r \in 1..n |-> IntV(0)]), 270)
             ELSE LET j == CHOOSE a \in cols : \A b \in cols : a <= b
                      counts == [r \in 1..n |-> extract_crash_count(df.data[r][j])]
                  IN  IF \E r \in 1..n : counts[r].kind = "raise"
                      THEN Raised("ValueError", 253)
                      ELSE Returned(Assign(df, <<"C","r","a","s","h","_","C","o","u","n","t","_","N","u","m","e","r","i","c">>, "int64",
                                           [r \in 1..n |-> IntV(counts[r].val)]), 270)

\* the text of a label
LabelText == [l \in {"ANR", "Fatal", "Non-fatal", "Network"} |->
                 CASE l = "ANR" -> <<"A","N","R">>
                   [] l = "Fatal" -> <<"F","a","t","a","l">>
                   [] l = "Non-fatal" -> <<"N","o","n","-","f","a","t","a","l">>
                   [] l = "Network" -> <<"N","e","t","w","o","r","k">>]

\* line 257: the classifier sees the row as it is by then
CrashTypeStep(prev) ==
    IF prev.kind = "raise" THEN prev
    ELSE LET df == prev.val
             types == [r \in 1..Len(df.data) |->
                          StrV(LabelText[categorize_crash_type(df.data[r]).val])]
         IN  Returned(Assign(df, <<"C","r","a","s","h","_","T","y","p","e">>, "object", types), 270)

\* lines 259-262
NetworkStep(prev) ==
    IF prev.kind = "raise" THEN prev
    ELSE LET df == prev.val
             n == Len(df.data)
             x == Column(df, ColNetwork)
             names == IF HasCol(df, ColNetwork)
                      THEN [r \in 1..n |-> IF ~isna(x[r]) THEN StrV(Strip(str(x[r])))
                                           ELSE StrV(Unknown)]
                      ELSE [r \in 1..n |-> StrV(Unknown)]
         IN  Returned(Assign(df, <<"N","e","t","w","o","r","k","_","N","a","m","e">>, "object", names), 270)

\* lines 264-270: .dt is refused on a column that is not datetime64
YearMonthStep(prev) ==
    IF prev.kind = "raise" THEN prev
    ELSE LET df == prev.val IN
         IF ~HasCol(df, ColDate) THEN prev
         ELSE IF df.dtypes[ColIndex(df, ColDate)] # "datetime64"
         THEN Raised("AttributeError", 265)
         ELSE LET date == Column(df, ColDate)
                  n == Len(df.data)
                  d1 == Assign(df, <<"Y","e","a","r">>, "int64", [r \in 1..n |-> IntV(date[r].y)])
                  d2 == Assign(d1, <<"M","o","n","t","h">>, "int64", [r \in 1..n |-> IntV(date[r].m)])
                  d3 == Assign(d2, <<"Y","e","a","r","_","M","o","n","t","h">>, "period",
                               [r \in 1..n |-> Period(date[r].y, date[r].m)])
                  d4 == Assign(d3, <<"Y","e","a","r","_","M","o","n","t","h","_","S","t","r">>, "object",
                               [r \in 1..n |->
                                   StrV(Pad(date[r].y, 4) \o <<"-">> \o Pad(date[r].m, 2))])
              IN  Returned(d4, 270)

process_dataframe(df) ==
    YearMonthStep(NetworkStep(CrashTypeStep(CrashCountStep(PlatformStep(GameStep(
        DateStep([df EXCEPT !.columns =
                     [j \in 1..Len(df.columns) |-> CleanHeader(df.columns[j])]])))))))

\* main(), lines 367-377: the session's table gets its Platform and Game columns
FillUnknown(df, name) ==
    LET d1 == IF HasCol(df, name) THEN df
              ELSE AddCol(df, name, "object", [r \in 1..Len(df.data) |-> StrV(Unknown)])
        x == Column(d1, name)
    IN  SetCol(d1, name, d1.dtypes[ColIndex(d1, name)],
               [r \in 1..Len(d1.data) |-> IF isna(x[r]) THEN StrV(Unknown) ELSE x[r]])

EnsureRequiredColumns(df) == FillUnknown(FillUnknown(df, ColPlatform), ColGame)

-----------------------------------------------------------------------------
(* Ingestion of one delimited text: the file is written row by row, read and *)
(* normalised, and main() completes the table it will filter                 *)

MaxCells == 6

\* the header rows drawn
Layouts ==
    { << <<"D","a","t","e">> >>,
      << <<"D","a","t","e">>, <<"G","a","m","e">> >>,
      << <<" ","D","a","t","e"," ">>, <<"C","r","a","s","h","\n","C","o","u","n","t">> >>,
      << <<"G","a","m","e">>, <<"P","l","a","t","f","o","r","m">> >>,
      << <<"P","l","a","t","f","o","r","m">>, <<"T","o","t","a","l"," ","c","r","a","s","h"," ","c","o","u","n","t">>, <<"T","y","p","e">> >>,
      << <<"T","y","p","e">>, <<"N","e","t","w","o","r","k">> >>,
      << <<"D","a","t","e">>, <<"G","a","m","e">>, <<"P","l","a","t","f","o","r","m">>, <<"C","r","a","s","h"," ","C","o","u","n","t">>, <<"T","y","p","e">>, <<"N","e","t","w","o","r","k">> >> }

\* the cell texts drawn under a header
CellTexts(header) ==
    LET name == CleanHeader(header) IN
    CASE name = ColDate ->
            { <<"0","1","-","0","1","-","2","0","2","4">>, <<"1","2","/","3","1","/","2","0","2","3">>, <<"g","a","r","b","a","g","e">>, <<>> }
      [] name = ColGame ->
            { <<"c","a","n","d","y"," ","c","r","u","s","h">>, <<" "," ">>, <<"N","a","n">>, <<>>,
              <<"n","o","t"," ">> }
      [] name = ColPlatform ->
            { <<"i","o","s">>, <<" ","a","n","d","r","o","i","d">>, <<>>, <<" ">>,
              <<"r","e","s","p","o","n","d","i","n","g">> }
      [] Contains(Lower(name), <<"c","r","a","s","h"," ","c","o","u","n","t">>) ->
            { <<"1",".","5","K">>, <<"1","2">>, <<>>, <<"1",".","2",".","3","K">> }
      [] name = ColNetwork ->
            { <<" ","U","n","i","t","y"," ">>, <<>> }
      [] OTHER ->
            { <<"f","a","t","a","l">>, <<"N","o","n","-","F","a","t","a","l"," ","A","N","R">>, <<>> }

RECURSIVE RowsOf(_)
RowsOf(headers) ==
    IF headers = <<>> THEN {<<>>}
    ELSE {<<c>> \o rest : c \in CellTexts(Head(headers)), rest \in RowsOf(Tail(headers))}

ValueIdle == value = Idle /\ result = Idle

InitFrame ==
    /\ ValueIdle /\ SessionIdle
    /\ \E layout \in Layouts : csv = [cols |-> layout, rows |-> <<>>, built |-> FALSE]
    /\ frame = Idle /\ shown = Idle

\* one more line of the file
AddRow ==
    /\ ~csv.built
    /\ (Len(csv.rows) + 1) * Len(csv.cols) <= MaxCells
    /\ \E row \in RowsOf(csv.cols) : csv' = [csv EXCEPT !.rows = Append(@, row)]
    /\ UNCHANGED <<value, result, frame, shown, session_state, cache, clock,
                   uploaded_file, run>>

\* df = pd.read_csv(...); df = process_dataframe(df)
ReadAndProcess ==
    /\ ~csv.built
    /\ csv' = [csv EXCEPT !.built = TRUE]
    /\ frame' = process_dataframe(read_csv(csv))
    /\ UNCHANGED <<value, result, shown, session_state, cache, clock, uploaded_file, run>>

\* main(), lines 367-377, on the table process_dataframe returned
EnsureColumns ==
    /\ frame.kind = "return"
    /\ shown = Idle
    /\ shown' = EnsureRequiredColumns(frame.val)
    /\ UNCHANGED <<value, result, csv, frame, session_state, cache, clock,
                   uploaded_file, run>>

NextFrame == AddRow \/ ReadAndProcess \/ EnsureColumns

SpecFrame == InitFrame /\ [][NextFrame]_vars

-----------------------------------------------------------------------------
(* load_data_from_google_sheet, lines 294-303, under st.cache_data(ttl=300) *)

TTL == 300

\* a cache that never lets an entry go
CacheHitNoTTL(c, now) == c.present

\* the cached entry is used while it is younger than the time to live
CacheHit(c, now) == c.present /\ now - c.at < TTL

\* lines 297-303: the (df, error) pair of a fetch that got `file`, or failed
Loaded(outcome) ==
    IF outcome.ok THEN [df |-> read_csv(outcome.file), error |-> Null]
    ELSE [df |-> Null, error |-> StrV(<<"f","e","t","c","h"," ","f","a","i","l","e","d">>)]

-----------------------------------------------------------------------------
(* The files a session meets *)

\* what the published sheet may hold when it is fetched
GoodSheet ==
    [cols |-> << <<"D","a","t","e">>, <<"G","a","m","e">>, <<"P","l","a","t","f","o","r","m">>, <<"C","r","a","s","h"," ","C","o","u","n","t">>, <<"T","y","p","e">> >>,
     rows |-> << << <<"0","1","-","0","1","-","2","0","2","4">>, <<"c","a","n","d","y"," ","c","r","u","s","h">>, <<"i","o","s">>, <<"1",".","5","K">>, <<"f","a","t","a","l">> >>,
                 << <<"g","a","r","b","a","g","e">>, <<"t","e","t","r","i","s">>, <<"a","n","d","r","o","i","d">>, <<"1","2">>, <<"a","n","r">> >> >>]
UndatedSheet ==
    [cols |-> << <<"D","a","t","e">>, <<"G","a","m","e">> >>,
     rows |-> << << <<"g","a","r","b","a","g","e">>, <<"c","a","n","d","y"," ","c","r","u","s","h">> >> >>]
EmptySheet == [cols |-> << <<"G","a","m","e">>, <<"P","l","a","t","f","o","r","m">> >>, rows |-> <<>>]
SheetFiles == {GoodSheet, UndatedSheet, EmptySheet}

FetchOutcomes == {[ok |-> FALSE]} \cup {[ok |-> TRUE, file |-> f] : f \in SheetFiles}

\* what a user may upload: a table, or a file read_csv cannot read
GameUpload ==
    [cols |-> << <<"G","a","m","e">>, <<"C","r","a","s","h"," ","C","o","u","n","t">> >>,
     rows |-> << << <<"t","e","t","r","i","s">>, <<"2","K">> >> >>, readable |-> TRUE]
BrokenUpload == [cols |-> <<>>, rows |-> <<>>, readable |-> FALSE]
UploadFiles == {GameUpload, BrokenUpload}

-----------------------------------------------------------------------------
(* main(), lines 308-451.  env holds the run so far: ss the session state,    *)
(* had the table the session held when the run began, cache, loaded the local *)
(* (df, error), msgs what was shown, end how the run ended once it has; a     *)
(* step of a run that has ended does nothing.                                 *)

End(env, outcome, exc, line) ==
    [env EXCEPT !.end = [outcome |-> outcome, exc |-> exc, line |-> line]]

Show(env, msg) == [env EXCEPT !.msgs = @ \cup {msg}]

\* lines 310-315
InitKeys(ss) ==
    [k \in DOMAIN ss \cup {"df", "last_refresh", "data_source"} |->
        IF k \in DOMAIN ss THEN ss[k] ELSE Null]

\* lines 326-327: the pair of a fetch is cached
Fetched(env, pair) ==
    [env EXCEPT !.loaded = pair,
                !.fetched = TRUE,
                !.cache = [present |-> TRUE, value |-> pair, at |-> env.now]]

\* lines 326-327: the cached pair, or a fetch
LoadStep(env, outcome) ==
    IF CacheHit(env.cache, env.now)
    THEN [env EXCEPT !.loaded = env.cache.value]
    ELSE Fetched(env, Loaded(outcome))

\* lines 331-333 and 359-361: the session takes the table
Store(env, df, source) ==
    [env EXCEPT !.df = df,
                !.ss["df"] = df,
                !.ss["last_refresh"] = Time(env.now),
                !.ss["data_source"] = Text(source)]

\* lines 330-333: r is what process_dataframe did; its exception is main()'s
Processing(env, r) ==
    IF r.kind = "raise" THEN End(env, "exception", r.exc, 330)
    ELSE Store(env, r.val, "Google Sheet")

\* lines 329-333
ProcessStep(env) ==
    IF env.loaded.df = Null THEN env
    ELSE Processing(env, process_dataframe(env.loaded.df))

\* lines 336-341: len(df) of the local df, which is None after a failed fetch
SourceInfoStep(env) ==
    IF env.end # Null THEN env
    ELSE IF env.ss["data_source"] = Text("Google Sheet")
    THEN IF env.df = Null THEN End(env, "exception", "TypeError", 339)
         ELSE Show(env, "sheet loaded")
    ELSE IF env.loaded.error # Null THEN Show(env, "fetch warning")
    ELSE env

\* lines 343-346
ButtonStep(env, clicked) ==
    IF env.end # Null THEN env
    ELSE IF clicked
    THEN End([env EXCEPT !.button = TRUE, !.cache = [present |-> FALSE]], "rerun", "", 346)
    ELSE [env EXCEPT !.button = TRUE]

\* lines 357-364: r is what process_dataframe did; its exception is shown
Uploading(env, r) ==
    IF r.kind = "raise" THEN Show(env, "upload error")
    ELSE Show(Store(env, r.val, "Uploaded File"), "upload loaded")

\* lines 349-364: what the uploader holds is read and normalised, an error of
\* either shown instead
UploadStep(env, file) ==
    IF env.end # Null THEN env
    ELSE IF file = Null THEN [env EXCEPT !.uploader = TRUE]
    ELSE IF ~file.readable THEN Show([env EXCEPT !.uploader = TRUE], "upload error")
    ELSE Uploading([env EXCEPT !.uploader = TRUE], process_dataframe(read_csv(file)))

\* lines 379-390: full is the session's table with its columns ensured
Checked(env, full) ==
    IF Len(full.data) = 0
    THEN End(Show([env EXCEPT !.df = full, !.ss["df"] = full], "unable to load data"),
             "stopped", "", 390)
    ELSE [env EXCEPT !.df = full, !.ss["df"] = full]

\* lines 367-390: the session's table is completed in place
DataCheckStep(env) ==
    IF env.end # Null THEN env
    ELSE IF env.ss["df"] = Null
    THEN End(Show([env EXCEPT !.df = Null], "unable to load data"), "stopped", "", 390)
    ELSE Checked(env, EnsureRequiredColumns(env.ss["df"]))

\* lines 399-402: st.session_state.last_upload is read
SidebarStep(env) ==
    IF env.end # Null THEN env
    ELSE IF "last_upload" \notin DOMAIN env.ss
    THEN End(env, "exception", "AttributeError", 399)
    ELSE env

\* the texts of a column that the sidebar offers: lines 432 and 437
Offered(df, name) ==
    {s \in {str(v) : v \in {x \in Range(Column(df, name)) : ~isna(x)}} : Strip(s) # <<>>}

\* lines 441-451, with the "All Time" period, which keeps every dated row
FilterStep(env, sel) ==
    IF env.end # Null THEN env
    ELSE LET df == env.df
             selected_games == Offered(df, ColGame) \ sel.games_off
             selected_platforms == Offered(df, ColPlatform) \ sel.platforms_off
             n == Len(df.data)
             by_game == IF selected_games # {}
                        THEN Filter(df, [r \in 1..n |->
                                 ~isna(Column(df, ColGame)[r])
                                 /\ str(Column(df, ColGame)[r]) \in selected_games])
                        ELSE df
             m == Len(by_game.data)
             filtered == IF selected_platforms # {}
                         THEN Filter(by_game, [r \in 1..m |->
                                 ~isna(Column(by_game, ColPlatform)[r])
                                 /\ str(Column(by_game, ColPlatform)[r]) \in selected_platforms])
                         ELSE by_game
         IN  IF Len(filtered.data) = 0
             THEN End(Show(env, "no data matches"), "no_match", "", 451)
             ELSE End(env, "rendered", "", 596)

\* what a run of main() leaves: the session state, the cache, and how it ended
Outcome(env) ==
    [ss |-> env.ss, cache |-> env.cache,
     run |-> [kind |-> "run", at |-> env.now, had |-> env.had, fetched |-> env.fetched,
              loaded |-> env.loaded, outcome |-> env.end.outcome, exc |-> env.end.exc,
              line |-> env.end.line, msgs |-> env.msgs, button |-> env.button,
              uploader |-> env.uploader]]

\* one run of main()
main(ss, c, now, outcome, clicked, file, sel) ==
    Outcome(FilterStep(SidebarStep(DataCheckStep(UploadStep(ButtonStep(
        SourceInfoStep(ProcessStep(LoadStep(
            [ss |-> InitKeys(ss), had |-> InitKeys(ss)["df"], cache |-> c, now |-> now,
             fetched |-> FALSE,
             loaded |-> Null, df |-> Null, msgs |-> {}, button |-> FALSE,
             uploader |-> FALSE, end |-> Null], outcome))), clicked), file))), sel))

-----------------------------------------------------------------------------
(* The session: page runs over time *)

MaxClock == 400
TickSeconds == 100

\* the sidebar selections drawn: the games and platforms deselected
FilterChoices ==
    { [games_off |-> {}, platforms_off |-> {}],
      [games_off |-> {<<"C","a","n","d","y"," ","C","r","u","s","h">>, <<"T","e","t","r","i","s">>}, platforms_off |-> {}] }

Init ==
    /\ ValueIdle /\ PipelineIdle
    /\ session_state = NoSession
    /\ cache = NoCache
    /\ clock = 0
    /\ uploaded_file = Null
    /\ run = NoRun

\* the browser session after a run
Commit(end, file) ==
    /\ session_state' = end.ss
    /\ cache' = end.cache
    /\ run' = end.run
    /\ uploaded_file' = file
    /\ UNCHANGED <<value, result, csv, frame, shown, clock>>

\* main() runs to its end on session state ss with the uploader holding file
PageRun(ss, clicked, file) ==
    \E outcome \in FetchOutcomes, sel \in FilterChoices :
        Commit(main(ss, cache, clock, outcome, clicked, file, sel), file)

Pending == run.kind = "run" /\ run.outcome = "rerun"

\* the page is opened in a browser: a new session
OpenPage ==
    /\ ~Pending
    /\ PageRun(NoSession, FALSE, Null)

\* the script runs again in the session: after st.rerun(), or from the menu
Rerun ==
    /\ run.kind = "run"
    /\ PageRun(session_state, FALSE, uploaded_file)

\* "Refresh Now" is pressed, where the last run drew it
ClickRefresh ==
    /\ run.kind = "run" /\ ~Pending
    /\ run.button
    /\ PageRun(session_state, TRUE, uploaded_file)

\* a file is dropped on the uploader, where the last run drew it
UploadFile ==
    /\ run.kind = "run" /\ ~Pending
    /\ run.uploader
    /\ \E f \in UploadFiles : PageRun(session_state, FALSE, f)

\* the uploaded file is removed
RemoveFile ==
    /\ run.kind = "run" /\ ~Pending
    /\ run.uploader
    /\ uploaded_file # Null
    /\ PageRun(session_state, FALSE, Null)

\* time passes between runs
Tick ==
    /\ ~Pending
    /\ clock + TickSeconds <= MaxClock
    /\ clock' = clock + TickSeconds
    /\ UNCHANGED <<value, result, csv, frame, shown, session_state, cache,
                   uploaded_file, run>>

Next == OpenPage \/ Rerun \/ ClickRefresh \/ UploadFile \/ RemoveFile \/ Tick

Spec == Init /\ [][Next]_vars

-----------------------------------------------------------------------------
(* Properties of the ingestion, checked under SpecFrame *)

\* the table read from the file, under its cleaned header
Input ==
    [read_csv(csv) EXCEPT !.columns = [j \in 1..Len(csv.cols) |-> CleanHeader(csv.cols[j])]]

\* the index labels of the rows of the input whose Date parse_date can parse
ParseableRows ==
    LET x == Column(Input, ColDate)
        keep == KeptRows([r \in 1..Len(x) |-> parse_date(x[r]).val.kind = "ts"], 1)
    IN  [i \in 1..Len(keep) |-> Input.index[keep[i]]]

\* C1 (as claimed, for the tables with a row): of a table with a Date column
\* process_dataframe returns exactly the rows whose Date parse_date can parse,
\* in their order, each with the Year_Month of its date's year and month; of a
\* table with no Date column it returns every row.
C1_KeepsExactlyParseableRows ==
    (csv.built /\ csv.rows # <<>>) =>
        /\ frame.kind = "return"
        /\ IF HasCol(Input, ColDate)
           THEN /\ frame.val.index = ParseableRows
                /\ HasCol(frame.val, <<"Y","e","a","r","_","M","o","n","t","h">>)
                /\ \A r \in 1..Len(frame.val.data) :
                       LET date == Column(frame.val, ColDate)[r] IN
                       Column(frame.val, <<"Y","e","a","r","_","M","o","n","t","h">>)[r] = Period(date.y, date.m)
           ELSE frame.val.index = Input.index

\* C7 (as claimed, for the tables with a row): of every table that can be read
\* process_dataframe returns a normalized table instead of failing, with a
\* crash count that is a non-negative integer in every row.
C7_NeverAbortsTheBatch ==
    (csv.built /\ csv.rows # <<>>) =>
        /\ frame.kind = "return"
        /\ \A r \in 1..Len(frame.val.data) :
               LET count == Column(frame.val, <<"C","r","a","s","h","_","C","o","u","n","t","_","N","u","m","e","r","i","c">>)[r] IN
               count.kind = "int" /\ count.n >= 0

\* what the claim makes of the cell text t of a Game or Platform column
Defaulted(t) ==
    IF t \in NaValues \/ Strip(t) = <<>> \/ Title(Strip(t)) = <<"N","a","n">> THEN Unknown
    ELSE IF Title(Strip(t)) \in {<<"I","o","s">>, <<"I","O","S">>} THEN <<"i","O","S">>
    ELSE Title(Strip(t))

\* the cell of the file under the header `name` in the row labelled k
SourceText(name, k) == csv.rows[k + 1][ColIndex(Input, name)]

\* C8 (as claimed): in the table the dashboard filters, each row's Game and
\* Platform is a non-empty string: the trimmed, title-cased cell (platform
\* Ios/IOS as iOS), and Unknown when the column is absent or the cell is
\* missing, blank or the literal Nan.
C8_GameAndPlatformNonEmpty ==
    shown # Idle =>
        \A name \in {ColGame, ColPlatform} :
            /\ HasCol(shown, name)
            /\ \A r \in 1..Len(shown.data) :
                   LET cell == Column(shown, name)[r] IN
                   /\ cell.kind = "str"
                   /\ cell.s # <<>>
                   /\ cell.s = IF HasCol(Input, name)
                               THEN Defaulted(SourceText(name, shown.index[r]))
                               ELSE Unknown

\* C12 (as claimed): in every row process_dataframe returns, Crash_Type is the
\* label the classifier gives the row's original cells, as read from the file:
\* classifying after the Date is parsed, Game and Platform are trimmed and
\* title-cased and the numeric crash count is added never changes the label.
C12_LabelOfTheRawRow ==
    (csv.built /\ frame.kind = "return") =>
        \A r \in 1..Len(frame.val.data) :
            Column(frame.val, <<"C","r","a","s","h","_","T","y","p","e">>)[r] =
                StrV(LabelText[categorize_crash_type(Input.data[frame.val.index[r] + 1]).val])

-----------------------------------------------------------------------------
(* Properties of the session, checked under Spec *)

\* the run fetched, and the fetch failed
FetchFailed == run.kind = "run" /\ run.fetched /\ run.loaded.df = Null

\* C4 (as claimed, for a stored table with rows and no file in the uploader,
\* the error of the sidebar's read at line 399 left to C5): when a run's fetch
\* fails in a session that held a normalized table, the session holds that
\* table unchanged after the run, the run has shown the fetch error, and it has
\* not ended in an unhandled error.
C4_FailedFetchKeepsTableAndWarns ==
    (/\ FetchFailed /\ uploaded_file = Null
     /\ run.had # Null /\ Len(run.had.data) > 0) =>
        /\ session_state["df"] = run.had
        /\ "fetch warning" \in run.msgs
        /\ run.outcome = "exception" => run.line = 399

\* C5 (as claimed, the errors of process_dataframe at line 330 and of the
\* failed fetch at line 339 left to C7 and C4): no page run ends in an
\* unhandled error: each ends in the rendered dashboard, the no-data-matches
\* state or the unable-to-load state, or restarts itself after Refresh Now, no
\* session-state key being read before it is initialised.
C5_NoRunEndsInUnhandledError ==
    (run.kind = "run" /\ run.line \notin {330, 339}) =>
        run.outcome \in {"rendered", "no_match", "stopped", "rerun"}

\* C6: a page run within 300 seconds of the last fetch reuses the cached pair
\* and does not fetch; a run with no cached pair, or with one 300 seconds old
\* or older, fetches, and what it fetched is cached as of now unless the same
\* run's Refresh Now cleared the cache; the run after a Refresh Now fetches.
C6_CacheTimeToLive ==
    [][(run' # run /\ run'.kind = "run") =>
          /\ (cache.present /\ clock - cache.at < 300)
                => (~run'.fetched /\ run'.loaded = cache.value)
          /\ (~cache.present \/ clock - cache.at >= 300)
                => /\ run'.fetched
                   /\ \/ cache' = [present |-> TRUE, value |-> run'.loaded, at |-> clock]
                      \/ run'.outcome = "rerun" /\ ~cache'.present
          /\ Pending => (~cache.present /\ run'.fetched)]_vars

\* a run has reused a cached pair that was fetched earlier, and the pair is
\* still cached
C6_Witness ==
    /\ run.kind = "run" /\ ~run.fetched
    /\ cache.present /\ cache.at < run.at /\ run.at - cache.at < 300
    /\ run.loaded = cache.value

====
